---- MODULE Spec2Model ----
(***************************************************************************)
(* A model of CalculatorApp.py: the AST-based evaluator safe_eval (with    *)
(* _eval_ast and the three whitelist tables) and the Streamlit session     *)
(* around it (the input field, the Compute button, the history list and    *)
(* its controls).                                                          *)
(*                                                                         *)
(* Text.  A Python str is a sequence of one-character strings, so that     *)
(* strip, replace and the `in` substring test are computed character by    *)
(* character.  The text of an error message is carried as a few larger     *)
(* pieces (no piece holds a denylisted substring or parses as a token).    *)
(*                                                                         *)
(* Numbers.  A Python int is an integer of magnitude at most NumCap.  A    *)
(* Python float is the double nearest to a rational n/d with |n|, d at     *)
(* most NumCap ("float"; d = 0 encodes inf, -inf and nan), or the double   *)
(* nearest to a decimal of at most 16 significant digits ("dfloat").       *)
(* Arithmetic is computed where the double result is that of the exact     *)
(* rational arithmetic: on ints and on floats whose denominator is a power *)
(* of two, and for one correctly rounded division.  An evaluation that     *)
(* leaves this range ends "unmodelled", and the model draws no input that  *)
(* does.                                                                   *)
(***************************************************************************)
EXTENDS Integers, Sequences, FiniteSets, TLC

(***************************************************************************)
(* Bounds of the model.                                                    *)
(***************************************************************************)
NumCap == 10000

-----------------------------------------------------------------------------
(***************************************************************************)
(* Text helpers: str.strip, str.replace, the `in` substring test.          *)
(***************************************************************************)
Digits == <<"0", "1", "2", "3", "4", "5", "6", "7", "8", "9">>

Letters == {"a", "b", "c", "d", "e", "f", "g", "h", "i", "j", "k", "l", "m",
            "n", "o", "p", "q", "r", "s", "t", "u", "v", "w", "x", "y", "z"}

IsDigit(c) == \E k \in 1..10 : Digits[k] = c

DigitVal(c) == (CHOOSE k \in 1..10 : Digits[k] = c) - 1

IsNameStart(c) == c \in Letters \/ c = "_"

IsNameChar(c) == IsNameStart(c) \/ IsDigit(c)

At(s, i) == IF i >= 1 /\ i <= Len(s) THEN s[i] ELSE ""

\* `not expr or not expr.strip()`
IsBlank(s) == \A i \in 1..Len(s) : s[i] = " "

RECURSIVE LStrip(_)
LStrip(s) == IF s # <<>> /\ s[1] = " " THEN LStrip(Tail(s)) ELSE s

RECURSIVE RStrip(_)
RStrip(s) ==
  IF s # <<>> /\ s[Len(s)] = " " THEN RStrip(SubSeq(s, 1, Len(s) - 1)) ELSE s

Strip(s) == RStrip(LStrip(s))

\* sub in s
Contains(s, sub) ==
  \E i \in 0..(Len(s) - Len(sub)) : SubSeq(s, i + 1, i + Len(sub)) = sub

\* s.replace(<<c>>, by)
RECURSIVE Replace(_, _, _)
Replace(s, c, by) ==
  IF s = <<>> THEN <<>>
  ELSE (IF s[1] = c THEN by ELSE <<s[1]>>) \o Replace(Tail(s), c, by)

-----------------------------------------------------------------------------
(***************************************************************************)
(* Numbers.                                                                *)
(***************************************************************************)
Abs(x) == IF x < 0 THEN -x ELSE x

RECURSIVE GCD(_, _)
GCD(a, b) == IF b = 0 THEN Abs(a) ELSE GCD(b, a % b)

\* Floored quotient and remainder for any signs of a and b (b # 0).
FloorDiv(a, b) == IF b > 0 THEN a \div b ELSE (-a) \div (-b)

FloorMod(a, b) == a - b * FloorDiv(a, b)

RECURSIVE IsPow2(_)
IsPow2(d) == d = 1 \/ (d > 1 /\ d % 2 = 0 /\ IsPow2(d \div 2))

NoVal == [t |-> "none"]

Unmodelled == [t |-> "unmodelled"]

IntVal(v) == IF Abs(v) <= NumCap THEN [t |-> "int", v |-> v] ELSE Unmodelled

\* The float nearest to n/d (d > 0), reduced.
FloatVal(n, d) ==
  LET g == GCD(n, d)
      rn == n \div g
      rd == d \div g
  IN IF Abs(rn) <= NumCap /\ rd <= NumCap
       THEN [t |-> "float", n |-> rn, d |-> rd]
       ELSE Unmodelled

Inf == [t |-> "float", n |-> 1, d |-> 0]

NegInf == [t |-> "float", n |-> -1, d |-> 0]

NaN == [t |-> "float", n |-> 0, d |-> 0]

\* The float nearest to the decimal d1.d2d3... * 10^exp (d1 # 0, last digit # 0).
DecVal(neg, digs, exp) == [t |-> "dfloat", neg |-> neg, digs |-> digs, exp |-> exp]

TupleVal(elts) == [t |-> "tuple", elts |-> elts]

IsInt(v) == v.t = "int"

IsFloat(v) == v.t \in {"float", "dfloat"}

IsFinite(v) == v.t = "int" \/ (v.t = "float" /\ v.d # 0) \/ v.t = "dfloat"

\* A number whose double is exactly the rational the model holds.
IsExact(v) == v.t = "int" \/ (v.t = "float" /\ v.d # 0 /\ IsPow2(v.d))

IsRat(v) == v.t = "int" \/ (v.t = "float" /\ v.d # 0)

Num(v) == IF v.t = "int" THEN v.v ELSE v.n

Den(v) == IF v.t = "int" THEN 1 ELSE v.d

IsZero(v) == IsRat(v) /\ Num(v) = 0

IsNegative(v) ==
  \/ IsRat(v) /\ Num(v) < 0
  \/ v = NegInf
  \/ v.t = "dfloat" /\ v.neg

RECURSIVE TenTo(_)
TenTo(k) == IF k = 0 THEN 1 ELSE 10 * TenTo(k - 1)

RECURSIVE DigitsToInt(_)
\* The integer a digit string denotes; NumCap + 1 stands for anything larger.
DigitsToInt(ds) ==
  IF ds = <<>> THEN 0
  ELSE LET hi == DigitsToInt(SubSeq(ds, 1, Len(ds) - 1))
       IN IF hi > NumCap THEN hi
          ELSE IF hi * 10 + DigitVal(ds[Len(ds)]) > NumCap THEN NumCap + 1
          ELSE hi * 10 + DigitVal(ds[Len(ds)])

RECURSIVE StripLeadingZeros(_)
StripLeadingZeros(ds) ==
  IF ds # <<>> /\ ds[1] = "0" THEN StripLeadingZeros(Tail(ds)) ELSE ds

RECURSIVE StripTrailingZeros(_)
StripTrailingZeros(ds) ==
  IF ds # <<>> /\ ds[Len(ds)] = "0"
    THEN StripTrailingZeros(SubSeq(ds, 1, Len(ds) - 1))
    ELSE ds

\* float("<mant>e<e10>"): the double nearest to mant * 10^e10, mant a digit
\* string read as an integer.
DecToFloat(neg, mant, e10) ==
  LET lead == StripLeadingZeros(mant)
      sig == StripTrailingZeros(lead)
      e == e10 + (Len(lead) - Len(sig))
      sci == e + Len(sig) - 1
      m == DigitsToInt(sig)
      sgn == IF neg THEN -1 ELSE 1
  IN IF sig = <<>> THEN FloatVal(0, 1)
     ELSE IF Len(sig) <= 4 /\ e >= 0 /\ e <= 4 /\ FloatVal(m * TenTo(e), 1) # Unmodelled
       THEN FloatVal(sgn * m * TenTo(e), 1)
     ELSE IF Len(sig) <= 4 /\ e < 0 /\ e >= -4 /\ FloatVal(m, TenTo(-e)) # Unmodelled
       THEN FloatVal(sgn * m, TenTo(-e))
     ELSE IF Len(sig) <= 15 /\ sci >= -300 /\ sci <= 300
       THEN DecVal(neg, sig, sci)
     ELSE Unmodelled

-----------------------------------------------------------------------------
(***************************************************************************)
(* ast.parse(expr, mode="eval"), first half: Python's tokenizer, for the   *)
(* characters of the model's alphabet.  A token is [k, s, v]: k its kind   *)
(* (num, name, kw, xkw, op, end, err), s its text, v a literal's value.    *)
(***************************************************************************)
Tok(k, s) == [k |-> k, s |-> s, v |-> NoVal]

NumTok(v) == [k |-> "num", s |-> "", v |-> v]

\* Keywords that cannot occur in an expression.
StatementKeywords ==
  {"as", "assert", "break", "class", "continue", "def", "del", "elif",
   "except", "finally", "from", "global", "import", "nonlocal", "pass",
   "raise", "return", "try", "while", "with"}

\* Keywords of expression forms this model does not parse.
ExpressionKeywords ==
  {"and", "or", "not", "if", "else", "in", "is", "lambda", "for", "async",
   "await", "yield"}

OneCharOps == {"+", "-", "*", "/", "%", "(", ")", ",", "~", "&", "^", "."}

RECURSIVE NameEnd(_, _)
\* The position after the identifier that starts at i.
NameEnd(s, i) == IF IsNameChar(At(s, i)) THEN NameEnd(s, i + 1) ELSE i

RECURSIVE Join(_)
Join(cs) == IF cs = <<>> THEN "" ELSE cs[1] \o Join(Tail(cs))

RECURSIVE DigitRun(_, _)
\* The position after the digit part digit (["_"] digit)* ; At(s, i - 1) is a digit.
DigitRun(s, i) ==
  IF IsDigit(At(s, i)) THEN DigitRun(s, i + 1)
  ELSE IF At(s, i) = "_" /\ IsDigit(At(s, i + 1)) THEN DigitRun(s, i + 2)
  ELSE i

DigitsOf(s, i, j) == SelectSeq(SubSeq(s, i, j - 1), IsDigit)

\* The keywords the tokenizer lets follow a number without a blank.
KeywordsAfterNumber ==
  {<<"a", "n", "d">>, <<"e", "l", "s", "e">>, <<"f", "o", "r">>, <<"i", "f">>,
   <<"i", "n">>, <<"i", "s">>, <<"n", "o", "t">>, <<"o", "r">>}

\* The token of the number literal at i whose integer part ends before p1,
\* fraction before p2 and exponent before p3: [tok, pos].  Prefixed (0x, 0o,
\* 0b) and imaginary literals and the keyword forms are outside the model.
NumberToken(s, i, p1, p2, p3) ==
  LET hasDot == p2 > p1
      hasExp == p3 > p2
      intDigs == DigitsOf(s, i, p1)
      fracDigs == DigitsOf(s, p1 + 1, p2)
      e1 == IF At(s, p2 + 1) \in {"+", "-"} THEN p2 + 2 ELSE p2 + 1
      expAbs == IF hasExp THEN DigitsToInt(DigitsOf(s, e1, p3)) ELSE 0
      expVal == IF At(s, p2 + 1) = "-" THEN -expAbs ELSE expAbs
  IN IF \/ (p1 = i + 1 /\ At(s, i) = "0" /\ At(s, p1) \in {"x", "o", "b"})
        \/ At(s, p3) = "j"
        \/ \E k \in KeywordsAfterNumber :
              \A j \in 1..Len(k) : At(s, p3 + j - 1) = k[j]
       THEN [tok |-> Tok("xkw", "literal"), pos |-> Len(s) + 1]
     ELSE IF /\ p1 > i /\ At(s, i) = "0" /\ StripLeadingZeros(intDigs) # <<>>
             /\ At(s, p1) \notin {".", "e"}
       THEN [tok |-> Tok("err", "leading zeros"), pos |-> p3]
     ELSE IF IsNameChar(At(s, p3))
       THEN [tok |-> Tok("err", "invalid decimal literal"), pos |-> p3]
     ELSE IF hasDot \/ hasExp
       THEN [tok |-> NumTok(DecToFloat(FALSE, intDigs \o fracDigs,
                                       expVal - Len(fracDigs))),
             pos |-> p3]
     ELSE IF DigitsToInt(intDigs) > NumCap
       THEN [tok |-> NumTok(Unmodelled), pos |-> p3]
     ELSE [tok |-> NumTok(IntVal(DigitsToInt(intDigs))), pos |-> p3]

\* The position after the fraction that may start at p.
FractionEnd(s, p) ==
  IF At(s, p) # "." THEN p
  ELSE IF IsDigit(At(s, p + 1)) THEN DigitRun(s, p + 2)
  ELSE p + 1

\* The position after the exponent that may start at p.
ExponentEnd(s, p) ==
  IF At(s, p) # "e" THEN p
  ELSE IF IsDigit(At(s, p + 1)) THEN DigitRun(s, p + 2)
  ELSE IF At(s, p + 1) \in {"+", "-"} /\ IsDigit(At(s, p + 2)) THEN DigitRun(s, p + 3)
  ELSE p

\* The number literal that starts at i.
LexNumber(s, i) ==
  LET p1 == IF IsDigit(At(s, i)) THEN DigitRun(s, i + 1) ELSE i
  IN NumberToken(s, i, p1, FractionEnd(s, p1),
                 ExponentEnd(s, FractionEnd(s, p1)))

RECURSIVE Lex(_, _)
\* The tokens of s from position i on; an err token ends them.
Lex(s, i) ==
  LET c == At(s, i)
      c2 == At(s, i + 1)
  IN IF i > Len(s) THEN <<Tok("end", "")>>
     ELSE IF c = " " THEN Lex(s, i + 1)
     ELSE IF IsDigit(c) \/ (c = "." /\ IsDigit(c2))
       THEN LET n == LexNumber(s, i)
            IN IF n.tok.k = "err" THEN <<n.tok>> ELSE <<n.tok>> \o Lex(s, n.pos)
     ELSE IF IsNameStart(c)
       THEN LET j == NameEnd(s, i)
                name == Join(SubSeq(s, i, j - 1))
                kind == IF name \in StatementKeywords THEN "kw"
                        ELSE IF name \in ExpressionKeywords THEN "xkw"
                        ELSE "name"
            IN <<Tok(kind, name)>> \o Lex(s, j)
     ELSE IF c = "*" /\ c2 = "*" THEN <<Tok("op", "**")>> \o Lex(s, i + 2)
     ELSE IF c = "/" /\ c2 = "/" THEN <<Tok("op", "//")>> \o Lex(s, i + 2)
     ELSE IF c = "." /\ c2 = "." /\ At(s, i + 2) = "."
       THEN <<Tok("op", "...")>> \o Lex(s, i + 3)
     ELSE IF c \in OneCharOps THEN <<Tok("op", c)>> \o Lex(s, i + 1)
     ELSE <<Tok("err", "invalid syntax")>>

\* A line that starts with a blank is an IndentationError ("unexpected indent").
Tokenize(s) ==
  IF At(s, 1) = " " THEN <<Tok("err", "unexpected indent")>> ELSE Lex(s, 1)

-----------------------------------------------------------------------------
(***************************************************************************)
(* ast.parse(expr, mode="eval"), second half: the grammar of expressions   *)
(* over these tokens, lowest precedence first:                             *)
(*   expressions: expression ("," expression)* [","]                       *)
(*   ^  <  &  <  + -  <  * / // %  <  unary + - ~  <  **  <  call, attribute *)
(* with ** right-associative and binding tighter than a unary operator on  *)
(* its left.  A node is a record with its class name in k and the fields   *)
(* of that class of Python's ast module.                                   *)
(***************************************************************************)
NoNode == [k |-> "none"]

Constant(v) == [k |-> "Constant", value |-> v]

Name(id) == [k |-> "Name", id |-> id]

BinOp(op, l, r) == [k |-> "BinOp", op |-> op, left |-> l, right |-> r]

UnaryOp(op, x) == [k |-> "UnaryOp", op |-> op, operand |-> x]

Call(f, args, kws) == [k |-> "Call", func |-> f, args |-> args, keywords |-> kws]

Tuple(elts) == [k |-> "Tuple", elts |-> elts]

Attribute(x, attr) == [k |-> "Attribute", value |-> x, attr |-> attr]

Starred(x) == [k |-> "Starred", value |-> x]

Keyword(x) == [k |-> "keyword", value |-> x]

Expression(body) == [k |-> "Expression", body |-> body]

Ellipsis == [t |-> "ellipsis"]

\* The binary operator tokens of each precedence level, with their ast class.
LevelOps ==
  << ("^" :> "BitXor"),
     ("&" :> "BitAnd"),
     ("+" :> "Add") @@ ("-" :> "Sub"),
     ("*" :> "Mult") @@ ("/" :> "Div") @@ ("//" :> "FloorDiv") @@ ("%" :> "Mod") >>

UnaryOps == ("+" :> "UAdd") @@ ("-" :> "USub") @@ ("~" :> "Invert")

IsOp(ts, p, o) == ts[p].k = "op" /\ ts[p].s = o

PR(st, node, pos) == [st |-> st, node |-> node, pos |-> pos]

RECURSIVE ParseRule(_, _, _, _)
\* The grammar rule called rule, applied to the tokens ts from position p on;
\* a is what the rule is handed: a precedence level, a left operand, the
\* node a trailer follows, the arguments or elements collected so far.
\* expression, level, rest, factor, power, primary, trailers and atom give
\* [st, node, pos]; args gives [st, args, kws, pos]; elems and element give
\* [st, elts, commas, pos].
ParseRule(rule, ts, p, a) ==
  CASE rule = "expression" -> ParseRule("level", ts, p, 1)
    \* One left-associative level of binary operators; a is the level.
    [] rule = "level" ->
         IF a > Len(LevelOps) THEN ParseRule("factor", ts, p, NoNode)
         ELSE LET x == ParseRule("level", ts, p, a + 1)
              IN IF x.st # "ok" THEN x
                 ELSE ParseRule("rest", ts, x.pos, [l |-> a, left |-> x.node])
    [] rule = "rest" ->
         IF ts[p].k = "op" /\ ts[p].s \in DOMAIN LevelOps[a.l]
           THEN LET r == ParseRule("level", ts, p + 1, a.l + 1)
                IN IF r.st # "ok" THEN r
                   ELSE ParseRule("rest", ts, r.pos,
                          [l |-> a.l,
                           left |-> BinOp(LevelOps[a.l][ts[p].s], a.left, r.node)])
           ELSE PR("ok", a.left, p)
    \* factor: ("+" | "-" | "~") factor | power
    [] rule = "factor" ->
         IF ts[p].k = "op" /\ ts[p].s \in DOMAIN UnaryOps
           THEN LET x == ParseRule("factor", ts, p + 1, NoNode)
                IN IF x.st # "ok" THEN x
                   ELSE PR("ok", UnaryOp(UnaryOps[ts[p].s], x.node), x.pos)
           ELSE ParseRule("power", ts, p, NoNode)
    \* power: primary ["**" factor]
    [] rule = "power" ->
         LET x == ParseRule("primary", ts, p, NoNode)
         IN IF x.st # "ok" \/ ~IsOp(ts, x.pos, "**") THEN x
            ELSE LET r == ParseRule("factor", ts, x.pos + 1, NoNode)
                 IN IF r.st # "ok" THEN r
                    ELSE PR("ok", BinOp("Pow", x.node, r.node), r.pos)
    \* primary: atom, then any calls and attribute references.
    [] rule = "primary" ->
         LET x == ParseRule("atom", ts, p, NoNode)
         IN IF x.st # "ok" THEN x ELSE ParseRule("trailers", ts, x.pos, x.node)
    \* a is the node the trailers follow.
    [] rule = "trailers" ->
         IF IsOp(ts, p, "(")
           THEN LET x == ParseRule("args", ts, p + 1, [args |-> <<>>, kws |-> <<>>])
                IN IF x.st # "ok" THEN PR("err", NoNode, x.pos)
                   ELSE ParseRule("trailers", ts, x.pos, Call(a, x.args, x.kws))
         ELSE IF IsOp(ts, p, ".")
           THEN IF ts[p + 1].k = "name"
                  THEN ParseRule("trailers", ts, p + 2, Attribute(a, ts[p + 1].s))
                  ELSE PR("err", NoNode, p + 1)
         ELSE PR("ok", a, p)
    \* The arguments of a call, after its "("; a is [args, kws] so far.
    [] rule = "args" ->
         LET bad(q) == [st |-> "err", args |-> <<>>, kws |-> <<>>, pos |-> q]
             next(q, as, ks) ==
               IF IsOp(ts, q, ",")
                 THEN ParseRule("args", ts, q + 1, [args |-> as, kws |-> ks])
               ELSE IF IsOp(ts, q, ")")
                 THEN [st |-> "ok", args |-> as, kws |-> ks, pos |-> q + 1]
               ELSE bad(q)
             skip == IF IsOp(ts, p, "**") \/ IsOp(ts, p, "*") THEN 1 ELSE 0
             e == ParseRule("expression", ts, p + skip, NoNode)
         IN IF IsOp(ts, p, ")")
              THEN [st |-> "ok", args |-> a.args, kws |-> a.kws, pos |-> p + 1]
            ELSE IF a.kws # <<>> /\ ~IsOp(ts, p, "**") THEN bad(p)
            ELSE IF e.st # "ok" THEN bad(e.pos)
            ELSE IF IsOp(ts, p, "**")
              THEN next(e.pos, a.args, Append(a.kws, Keyword(e.node)))
            ELSE IF IsOp(ts, p, "*")
              THEN next(e.pos, Append(a.args, Starred(e.node)), a.kws)
            ELSE next(e.pos, Append(a.args, e.node), a.kws)
    \* One element of a list: an expression, or "*" expression where starred.
    [] rule = "element" ->
         IF a /\ IsOp(ts, p, "*")
           THEN LET x == ParseRule("expression", ts, p + 1, NoNode)
                IN IF x.st # "ok" THEN x ELSE PR("ok", Starred(x.node), x.pos)
           ELSE ParseRule("expression", ts, p, NoNode)
    \* Comma-separated elements up to a ")" or the end; a is [elts, commas,
    \* star] so far.
    [] rule = "elems" ->
         LET e == ParseRule("element", ts, p, a.star)
             q == e.pos
             ends(i) == IsOp(ts, i, ")") \/ ts[i].k \in {"end", "err"}
         IN IF e.st # "ok"
              THEN [st |-> "err", elts |-> <<>>, commas |-> 0, pos |-> q]
            ELSE IF IsOp(ts, q, ",") /\ ~ends(q + 1)
              THEN ParseRule("elems", ts, q + 1,
                     [elts |-> Append(a.elts, e.node), commas |-> a.commas + 1,
                      star |-> a.star])
            ELSE [st |-> "ok", elts |-> Append(a.elts, e.node),
                  commas |-> IF IsOp(ts, q, ",") THEN a.commas + 1 ELSE a.commas,
                  pos |-> IF IsOp(ts, q, ",") THEN q + 1 ELSE q]
    \* atom: NAME | NUMBER | "..." | "(" ")" | "(" expression ")" | a tuple
    \* in parentheses
    [] rule = "atom" ->
         LET tk == ts[p]
         IN IF tk.k = "name" THEN PR("ok", Name(tk.s), p + 1)
            ELSE IF tk.k = "num" THEN PR("ok", Constant(tk.v), p + 1)
            ELSE IF IsOp(ts, p, "...") THEN PR("ok", Constant(Ellipsis), p + 1)
            ELSE IF IsOp(ts, p, "(")
              THEN IF IsOp(ts, p + 1, ")") THEN PR("ok", Tuple(<<>>), p + 2)
                   ELSE LET r == ParseRule("elems", ts, p + 1,
                                   [elts |-> <<>>, commas |-> 0, star |-> TRUE])
                        IN IF r.st # "ok" \/ ~IsOp(ts, r.pos, ")")
                             THEN PR("err", NoNode, r.pos)
                           ELSE IF r.commas > 0
                             THEN PR("ok", Tuple(r.elts), r.pos + 1)
                           ELSE IF r.elts[1].k = "Starred"
                             THEN PR("err", NoNode, r.pos)
                           ELSE PR("ok", r.elts[1], r.pos + 1)
            ELSE PR("err", NoNode, p)

RECURSIVE UnmatchedClose(_, _, _)
\* Whether a ")" with no "(" before it occurs among the tokens from p on.
UnmatchedClose(ts, p, depth) ==
  IF p > Len(ts) THEN FALSE
  ELSE IF IsOp(ts, p, "(") THEN UnmatchedClose(ts, p + 1, depth + 1)
  ELSE IF IsOp(ts, p, ")")
    THEN depth = 0 \/ UnmatchedClose(ts, p + 1, depth - 1)
  ELSE UnmatchedClose(ts, p + 1, depth)

\* The tree of the tokens ts, r what the rule for a list of expressions made
\* of them: [st, tree, detail]; st is ok, err (a SyntaxError, detail its
\* message) or unmodelled.
ParseTokens(ts, r) ==
  LET res(st, tree, detail) == [st |-> st, tree |-> tree, detail |-> detail]
  IN IF \E i \in 1..Len(ts) : ts[i].k = "xkw" THEN res("unmodelled", NoNode, "")
     ELSE IF UnmatchedClose(ts, 1, 0) THEN res("err", NoNode, "unmatched ')'")
     ELSE IF ts[Len(ts)].k = "err" THEN res("err", NoNode, ts[Len(ts)].s)
     ELSE IF r.st = "ok" /\ ts[r.pos].k = "end"
       THEN res("ok", Expression(IF r.commas > 0 THEN Tuple(r.elts) ELSE r.elts[1]), "")
     ELSE res("err", NoNode, "invalid syntax")

Elements(ts) ==
  ParseTokens(ts, ParseRule("elems", ts, 1, [elts |-> <<>>, commas |-> 0, star |-> FALSE]))

\* ast.parse(s, mode="eval")
Parse(s) == Elements(Tokenize(s))

-----------------------------------------------------------------------------
(***************************************************************************)
(* The whitelist tables.  An operator or function is named by the Python   *)
(* callable the table holds for it.                                        *)
(***************************************************************************)
_OPERATORS ==
  [Add |-> "op.add", Sub |-> "op.sub", Mult |-> "op.mul", Div |-> "op.truediv",
   Pow |-> "op.pow", Mod |-> "op.mod", FloorDiv |-> "op.floordiv",
   USub |-> "op.neg", UAdd |-> "op.pos", BitXor |-> "op.pow"]

_MATH_FUNCS ==
  [sin |-> "math.sin", cos |-> "math.cos", tan |-> "math.tan",
   asin |-> "math.asin", acos |-> "math.acos", atan |-> "math.atan",
   sqrt |-> "math.sqrt", log |-> "math.log", log10 |-> "math.log10",
   ln |-> "math.log", exp |-> "math.exp", abs |-> "abs",
   ceil |-> "math.ceil", floor |-> "math.floor",
   factorial |-> "math.factorial"]

\* math.pi, math.e and math.tau by their shortest round-trip decimals.
_CONSTANTS ==
  [pi |-> DecVal(FALSE, <<"3", "1", "4", "1", "5", "9", "2", "6", "5", "3",
                          "5", "8", "9", "7", "9", "3">>, 0),
   e |-> DecVal(FALSE, <<"2", "7", "1", "8", "2", "8", "1", "8", "2", "8",
                         "4", "5", "9", "0", "4", "5">>, 0),
   tau |-> DecVal(FALSE, <<"6", "2", "8", "3", "1", "8", "5", "3", "0", "7",
                           "1", "7", "9", "5", "8", "6">>, 0),
   inf |-> Inf,
   nan |-> NaN]

-----------------------------------------------------------------------------
(***************************************************************************)
(* The callables: what the call of func returns or raises.  A result is   *)
(* [st, val, exc, why]: st is ok (val the value), err (exc the class of    *)
(* the exception raised, why its cause) or unmodelled.                     *)
(***************************************************************************)
MaxTuple == 6

Unm == [st |-> "unmodelled", val |-> NoVal, exc |-> "", why |-> ""]

Ret(v) == IF v = Unmodelled THEN Unm
          ELSE [st |-> "ok", val |-> v, exc |-> "", why |-> ""]

Exc(class, why) == [st |-> "err", val |-> NoVal, exc |-> class, why |-> why]

IsNumber(v) == v.t \in {"int", "float", "dfloat"}

\* int when both operands are, otherwise float.
Result(a, b, n, d) ==
  IF d = 0 THEN Unm
  ELSE IF IsInt(a) /\ IsInt(b) /\ n % d = 0 THEN Ret(IntVal(n \div d))
  ELSE IF d < 0 THEN Ret(FloatVal(-n, -d))
  ELSE Ret(FloatVal(n, d))

RECURSIVE Repeat(_, _)
Repeat(elts, n) == IF n <= 0 THEN <<>> ELSE elts \o Repeat(elts, n - 1)

RECURSIVE PowFrom(_, _, _)
PowFrom(b, e, acc) ==
  IF e = 0 \/ Abs(acc) > NumCap THEN acc ELSE PowFrom(b, e - 1, acc * b)

\* b^e for e >= 0; a magnitude above NumCap stands for anything larger.
PowCap(b, e) ==
  IF e = 0 THEN 1
  ELSE IF Abs(b) <= 1 THEN (IF b = -1 /\ e % 2 = 0 THEN 1 ELSE b)
  ELSE PowFrom(b, e, 1)

\* The integer root of a perfect square up to NumCap, else -1.
ISqrt(n) ==
  IF \E r \in 0..100 : r * r = n THEN CHOOSE r \in 0..100 : r * r = n ELSE -1

IsSquare(n) == ISqrt(n) >= 0

RECURSIVE FactCap(_)
FactCap(n) ==
  IF n <= 1 THEN 1
  ELSE IF n > 12 THEN NumCap + 1
  ELSE LET f == FactCap(n - 1) IN IF f > NumCap THEN f ELSE f * n

\* op.add, op.sub, op.mul
Arith(fn, a, b) ==
  IF a.t = "tuple" /\ b.t = "tuple" /\ fn = "op.add"
    THEN IF Len(a.elts) + Len(b.elts) > MaxTuple THEN Unm
         ELSE Ret(TupleVal(a.elts \o b.elts))
  ELSE IF fn = "op.mul" /\ ((a.t = "tuple" /\ IsInt(b)) \/ (IsInt(a) /\ b.t = "tuple"))
    THEN LET tup == IF a.t = "tuple" THEN a ELSE b
             n == IF a.t = "tuple" THEN b.v ELSE a.v
         IN IF n > 0 /\ Len(tup.elts) * n > MaxTuple THEN Unm
            ELSE Ret(TupleVal(Repeat(tup.elts, n)))
  ELSE IF ~IsNumber(a) \/ ~IsNumber(b) THEN Exc("TypeError", "type")
  ELSE IF ~IsExact(a) \/ ~IsExact(b) THEN Unm
  ELSE IF fn = "op.add" THEN Result(a, b, Num(a) * Den(b) + Num(b) * Den(a), Den(a) * Den(b))
  ELSE IF fn = "op.sub" THEN Result(a, b, Num(a) * Den(b) - Num(b) * Den(a), Den(a) * Den(b))
  ELSE Result(a, b, Num(a) * Num(b), Den(a) * Den(b))

\* op.truediv, op.floordiv, op.mod
Division(fn, a, b) ==
  IF ~IsNumber(a) \/ ~IsNumber(b) THEN Exc("TypeError", "type")
  ELSE IF IsZero(b) THEN Exc("ZeroDivisionError", "zero")
  ELSE IF ~IsExact(a) \/ ~IsExact(b) THEN Unm
  ELSE LET x == Num(a) * Den(b)
           y == Num(b) * Den(a)
       IN IF fn = "op.truediv"
            THEN (IF y < 0 THEN Ret(FloatVal(-x, -y)) ELSE Ret(FloatVal(x, y)))
          ELSE IF fn = "op.floordiv" THEN Result(a, b, FloorDiv(x, y), 1)
          ELSE Result(a, b, FloorMod(x, y), Den(a) * Den(b))

\* op.pow
Power(a, b) ==
  IF ~IsNumber(a) \/ ~IsNumber(b) THEN Exc("TypeError", "type")
  ELSE IF ~IsExact(a) \/ ~IsExact(b) THEN Unm
  ELSE IF Den(b) # 1
    THEN IF IsZero(a) /\ Num(b) > 0 THEN Ret(FloatVal(0, 1))
         ELSE IF IsZero(a) THEN Exc("ZeroDivisionError", "zero")
         ELSE Unm
  ELSE LET e == Num(b)
           n == PowCap(Num(a), Abs(e))
           d == PowCap(Den(a), Abs(e))
       IN IF e < 0 /\ IsZero(a) THEN Exc("ZeroDivisionError", "zero")
          ELSE IF Abs(n) > NumCap \/ d > NumCap THEN Unm
          ELSE IF e >= 0 THEN Result(a, b, n, d)
          ELSE IF ~IsPow2(Abs(n)) THEN Unm
          ELSE IF n < 0 THEN Ret(FloatVal(-d, -n))
          ELSE Ret(FloatVal(d, n))

\* op.neg, op.pos
Unary(fn, a) ==
  IF ~IsNumber(a) THEN Exc("TypeError", "type")
  ELSE IF fn = "op.pos" THEN Ret(a)
  ELSE IF a.t = "int" THEN Ret(IntVal(-a.v))
  ELSE IF a.t = "float" THEN Ret([a EXCEPT !.n = -a.n])
  ELSE Ret([a EXCEPT !.neg = ~a.neg])

\* The arities a callable of _MATH_FUNCS accepts.
Arity(fn) == IF fn = "math.log" THEN {1, 2} ELSE {1}

\* math.log(x): exact at 1, inf and nan, a domain error at or below zero.
Log1(x) ==
  IF x = NaN THEN Ret(NaN)
  ELSE IF IsZero(x) \/ IsNegative(x) THEN Exc("ValueError", "domain")
  ELSE IF x = Inf THEN Ret(Inf)
  ELSE IF IsRat(x) /\ Num(x) = Den(x) THEN Ret(FloatVal(0, 1))
  ELSE Unm

\* math.log(x, base) is log(x) / log(base), each part raising in turn.
Log2(x, base) ==
  LET num == IF IsNumber(x) THEN Log1(x) ELSE Exc("TypeError", "type")
      den == IF IsNumber(base) THEN Log1(base) ELSE Exc("TypeError", "type")
  IN IF num.st = "err" THEN num
     ELSE IF den.st = "err" THEN den
     ELSE IF ~IsFinite(x) \/ ~IsFinite(base) THEN Unm
     ELSE IF den.st = "ok" /\ IsZero(den.val) THEN Exc("ZeroDivisionError", "zero")
     ELSE IF num.st = "ok" /\ IsZero(num.val) THEN Ret(FloatVal(0, 1))
     ELSE Unm

Trig(fn, x) ==
  IF x = NaN THEN Ret(NaN)
  ELSE IF ~IsFinite(x)
    THEN IF fn = "math.atan" THEN Unm ELSE Exc("ValueError", "domain")
  ELSE IF fn \in {"math.asin", "math.acos"} /\ IsRat(x) /\ Abs(Num(x)) > Den(x)
    THEN Exc("ValueError", "domain")
  ELSE IF fn \in {"math.sin", "math.tan", "math.asin", "math.atan"} /\ IsZero(x)
    THEN Ret(FloatVal(0, 1))
  ELSE IF fn = "math.cos" /\ IsZero(x) THEN Ret(FloatVal(1, 1))
  ELSE IF fn = "math.acos" /\ IsRat(x) /\ Num(x) = Den(x) THEN Ret(FloatVal(0, 1))
  ELSE Unm

Sqrt(x) ==
  IF x = NaN THEN Ret(NaN)
  ELSE IF IsNegative(x) THEN Exc("ValueError", "domain")
  ELSE IF x = Inf THEN Ret(Inf)
  ELSE IF IsExact(x) /\ IsSquare(Num(x)) /\ IsSquare(Den(x))
    THEN Ret(FloatVal(ISqrt(Num(x)), ISqrt(Den(x))))
  ELSE Unm

Exp(x) ==
  IF x = NaN THEN Ret(NaN)
  ELSE IF x = Inf THEN Ret(Inf)
  ELSE IF x = NegInf THEN Ret(FloatVal(0, 1))
  ELSE IF IsZero(x) THEN Ret(FloatVal(1, 1))
  ELSE Unm

Factorial(x) ==
  IF ~IsInt(x) THEN Unm
  ELSE IF x.v < 0 THEN Exc("ValueError", "domain")
  ELSE Ret(IntVal(FactCap(x.v)))

AbsValue(x) ==
  IF x.t = "int" THEN Ret(IntVal(Abs(x.v)))
  ELSE IF x.t = "float" THEN Ret([x EXCEPT !.n = Abs(x.n)])
  ELSE Ret([x EXCEPT !.neg = FALSE])

\* math.ceil, math.floor
Round(fn, x) ==
  IF x = NaN THEN Exc("ValueError", "domain")
  ELSE IF ~IsFinite(x) THEN Exc("OverflowError", "overflow")
  ELSE IF ~IsRat(x) THEN Unm
  ELSE IF fn = "math.floor" THEN Ret(IntVal(FloorDiv(Num(x), Den(x))))
  ELSE Ret(IntVal(-FloorDiv(-Num(x), Den(x))))

\* The call of func for a callable of _OPERATORS (one or two operands).
\* A float zero that a negative operand or a negation produces may be -0.0,
\* which the model does not hold.
ApplyOperator(fn, args) ==
  LET r == IF fn \in {"op.neg", "op.pos"} THEN Unary(fn, args[1])
           ELSE IF fn \in {"op.add", "op.sub", "op.mul"} THEN Arith(fn, args[1], args[2])
           ELSE IF fn = "op.pow" THEN Power(args[1], args[2])
           ELSE Division(fn, args[1], args[2])
  IN IF /\ r.st = "ok" /\ r.val.t = "float" /\ IsZero(r.val)
        /\ (fn = "op.neg" \/ \E i \in 1..Len(args) : IsNegative(args[i]))
       THEN Unm
     ELSE r

\* The call of func for a callable of _MATH_FUNCS: the argument count is checked
\* first, then each argument's type and the function's domain on it.
ApplyFunction(fn, args) ==
  IF Len(args) \notin Arity(fn) THEN Exc("TypeError", "arity")
  ELSE IF fn = "math.log" /\ Len(args) = 2 THEN Log2(args[1], args[2])
  ELSE IF ~IsNumber(args[1]) THEN Exc("TypeError", "type")
  ELSE IF fn = "math.log" THEN Log1(args[1])
  ELSE IF fn = "math.log10" THEN Log1(args[1])
  ELSE IF fn = "math.sqrt" THEN Sqrt(args[1])
  ELSE IF fn = "math.exp" THEN Exp(args[1])
  ELSE IF fn = "math.factorial" THEN Factorial(args[1])
  ELSE IF fn = "abs" THEN AbsValue(args[1])
  ELSE IF fn \in {"math.ceil", "math.floor"} THEN Round(fn, args[1])
  ELSE Trig(fn, args[1])

-----------------------------------------------------------------------------
(***************************************************************************)
(* _eval_ast and safe_eval.  T holds the three tables as the call finds    *)
(* them: [ops, funcs, consts].  An outcome is                              *)
(*   [st, val, site, exc, why, msg, applied, fn, args]                     *)
(* st: ok (val is returned), err (EvalError is raised) or unmodelled;      *)
(* site: the raise statement; exc, why: the exception a callable raised,   *)
(* which site "apply" wraps, fn and args that callable and its operands;   *)
(* msg: the EvalError's text; applied: how many times a callable of the    *)
(* tables was called on evaluated operands.                                *)
(***************************************************************************)
Returns(v, applied) ==
  [st |-> "ok", val |-> v, site |-> "", exc |-> "", why |-> "", msg |-> <<>>,
   applied |-> applied, fn |-> "", args |-> <<>>]

Raises(site, msg, applied) ==
  [st |-> "err", val |-> NoVal, site |-> site, exc |-> "EvalError", why |-> "",
   msg |-> msg, applied |-> applied, fn |-> "", args |-> <<>>]

NotModelled ==
  [st |-> "unmodelled", val |-> NoVal, site |-> "", exc |-> "", why |-> "",
   msg |-> <<>>, applied |-> 0, fn |-> "", args |-> <<>>]

\* str(e) of the exception a callable raised, one text for each cause.
ExcText(exc, why) ==
  IF why = "zero" THEN <<"division by zero">>
  ELSE IF why = "domain" THEN <<"math domain error">>
  ELSE IF why = "arity" THEN <<"takes exactly one argument">>
  ELSE IF why = "overflow" THEN <<"cannot convert float infinity to integer">>
  ELSE <<"unsupported operand type(s)">>

\* try: return func(...)  except Exception as e: raise EvalError(str(e))
Guarded(fn, args, r, applied) ==
  IF r.st = "ok" THEN Returns(r.val, applied + 1)
  ELSE IF r.st = "unmodelled" THEN NotModelled
  ELSE [st |-> "err", val |-> NoVal, site |-> "apply", exc |-> r.exc,
        why |-> r.why, msg |-> ExcText(r.exc, r.why), applied |-> applied + 1,
        fn |-> fn, args |-> args]

\* The Python type name of a constant's value.
TypeName(v) == IF v = Ellipsis THEN "ellipsis" ELSE v.t

RECURSIVE _eval_ast(_, _)
RECURSIVE EvalAll(_, _, _, _)

\* The nodes evaluated left to right: [st, vals, res, applied], res the first
\* outcome that is not a value.
EvalAll(nodes, T, vals, applied) ==
  IF nodes = <<>>
    THEN [st |-> "ok", vals |-> vals, res |-> NotModelled, applied |-> applied]
  ELSE LET r == _eval_ast(nodes[1], T)
       IN IF r.st = "unmodelled"
            THEN [st |-> r.st, vals |-> <<>>, res |-> r, applied |-> 0]
          ELSE IF r.st = "err"
            THEN [st |-> r.st, vals |-> <<>>,
                  res |-> [r EXCEPT !.applied = applied + r.applied],
                  applied |-> applied + r.applied]
          ELSE EvalAll(Tail(nodes), T, Append(vals, r.val), applied + r.applied)

_eval_ast(node, T) ==
  IF node.k = "Expression" THEN _eval_ast(node.body, T)
  ELSE IF node.k = "Constant"
    THEN IF node.value = Unmodelled THEN NotModelled
         ELSE IF IsNumber(node.value) THEN Returns(node.value, 0)
         ELSE Raises("consttype",
                     <<"Unsupported constant type: ", TypeName(node.value)>>, 0)
  ELSE IF node.k = "BinOp"
    THEN LET a == EvalAll(<<node.left, node.right>>, T, <<>>, 0)
         IN IF a.st # "ok" THEN a.res
            ELSE IF node.op \in DOMAIN T.ops
              THEN Guarded(T.ops[node.op], a.vals,
                           ApplyOperator(T.ops[node.op], a.vals), a.applied)
            ELSE Raises("binop", <<"Unsupported binary operator: ", node.op>>,
                        a.applied)
  ELSE IF node.k = "UnaryOp"
    THEN LET a == EvalAll(<<node.operand>>, T, <<>>, 0)
         IN IF a.st # "ok" THEN a.res
            ELSE IF node.op \in DOMAIN T.ops
              THEN Guarded(T.ops[node.op], a.vals,
                           ApplyOperator(T.ops[node.op], a.vals), a.applied)
            ELSE Raises("unop", <<"Unsupported unary operator: ", node.op>>,
                        a.applied)
  ELSE IF node.k = "Call"
    THEN IF node.func.k = "Name"
           THEN IF node.func.id \notin DOMAIN T.funcs
                  THEN Raises("func", <<"Function '", node.func.id, "' not allowed">>, 0)
                ELSE LET a == EvalAll(node.args, T, <<>>, 0)
                     IN IF a.st # "ok" THEN a.res
                        ELSE Guarded(T.funcs[node.func.id], a.vals,
                                     ApplyFunction(T.funcs[node.func.id], a.vals),
                                     a.applied)
           ELSE Raises("call", <<"Only direct math function calls are allowed">>, 0)
  ELSE IF node.k = "Name"
    THEN IF node.id \in DOMAIN T.consts THEN Returns(T.consts[node.id], 0)
         ELSE Raises("name", <<"Name '", node.id, "' is not allowed">>, 0)
  ELSE IF node.k = "Tuple"
    THEN LET a == EvalAll(node.elts, T, <<>>, 0)
         IN IF a.st # "ok" THEN a.res
            ELSE IF Len(a.vals) > MaxTuple THEN NotModelled
            ELSE Returns(TupleVal(a.vals), a.applied)
  ELSE Raises("expr", <<"Unsupported expression: ", node.k>>, 0)

\* iter_child_nodes: a node's children, field by field; an operator class or
\* an expression context is a node of its own.
Children(node) ==
  IF node.k = "Expression" THEN <<node.body>>
  ELSE IF node.k = "BinOp" THEN <<node.left, [k |-> node.op], node.right>>
  ELSE IF node.k = "UnaryOp" THEN <<[k |-> node.op], node.operand>>
  ELSE IF node.k = "Call" THEN <<node.func>> \o node.args \o node.keywords
  ELSE IF node.k = "Name" THEN <<[k |-> "Load"]>>
  ELSE IF node.k = "Tuple" THEN node.elts \o <<[k |-> "Load"]>>
  ELSE IF node.k \in {"Attribute", "Starred"} THEN <<node.value, [k |-> "Load"]>>
  ELSE IF node.k = "keyword" THEN <<node.value>>
  ELSE <<>>

RECURSIVE Walk(_)
\* ast.walk: breadth first from the nodes queued.
Walk(queue) ==
  IF queue = <<>> THEN <<>>
  ELSE <<queue[1]>> \o Walk(Tail(queue) \o Children(queue[1]))

\* The node classes the walk of safe_eval lets through.
AllowedNodes ==
  {"Expression", "BinOp", "UnaryOp", "Num", "Load", "Call", "Name", "Constant",
   "Tuple", "Pow", "Mod", "FloorDiv", "Add", "Sub", "Mult", "Div", "USub", "UAdd"}

\* What the walk raises at one node, if anything.
CheckNode(node, T) ==
  IF node.k = "BinOp" /\ node.op \notin DOMAIN T.ops
    THEN Raises("operator", <<"Operator not allowed: ", node.op>>, 0)
  ELSE IF node.k \notin AllowedNodes
    THEN Raises("node", <<"Disallowed AST node: ", node.k>>, 0)
  ELSE Returns(NoVal, 0)

\* The loop over ast.walk(parsed): the first EvalError, or ok.
Validate(tree, T) ==
  LET nodes == Walk(<<tree>>)
      bad == {i \in 1..Len(nodes) : CheckNode(nodes[i], T).st = "err"}
  IN IF bad = {} THEN Returns(NoVal, 0)
     ELSE CheckNode(nodes[CHOOSE i \in bad : \A j \in bad : i <= j], T)

\* The list without its entry 'os.', to compare with.
DenyListWithoutOs ==
  << <<";">>, <<"_", "_">>, <<"i", "m", "p", "o", "r", "t">>,
     <<"e", "x", "e", "c">>, <<"e", "v", "a", "l">>, <<"s", "y", "s", ".">>,
     <<"s", "u", "b", "p", "r", "o", "c", "e", "s", "s">> >>

\* The substrings safe_eval rejects, in the order it tests them.
DenyList ==
  << <<";">>, <<"_", "_">>, <<"i", "m", "p", "o", "r", "t">>,
     <<"e", "x", "e", "c">>, <<"e", "v", "a", "l">>, <<"o", "s", ".">>,
     <<"s", "y", "s", ".">>,
     <<"s", "u", "b", "p", "r", "o", "c", "e", "s", "s">> >>

\* No rewriting of ^, to compare with.
KeepCaret(s) == s

\* expr.replace("^", "**")
Normalize(s) == Replace(s, "^", <<"*", "*">>)

Denied(text) == \E i \in 1..Len(DenyList) : Contains(text, DenyList[i])

\* f"Parse error: {e}"
ParseErrorText(detail) ==
  IF detail = "leading zeros"
    THEN <<"Parse error: leading zeros in decimal integer literals are not permitted",
           ";", " use an 0o prefix for octal integers (<unknown>, line 1)">>
    ELSE <<"Parse error: ", detail, " (<unknown>, line 1)">>

ParseOutcome(p) ==
  IF p.st = "unmodelled" THEN NotModelled
  ELSE IF p.st = "err" THEN Raises("parse", ParseErrorText(p.detail), 0)
  ELSE Returns(NoVal, 0)

safe_eval(s, T) ==
  IF s = <<>> \/ IsBlank(s) THEN Raises("empty", <<"Empty expression">>, 0)
  ELSE LET text == Normalize(s)
       IN IF Denied(text) THEN Raises("token", <<"Invalid token in expression">>, 0)
          ELSE LET p == Parse(text)
               IN IF p.st # "ok" THEN ParseOutcome(p)
                  ELSE LET w == Validate(p.tree, T)
                       IN IF w.st # "ok" THEN w ELSE _eval_ast(p.tree, T)

Tables0 == [ops |-> _OPERATORS, funcs |-> _MATH_FUNCS, consts |-> _CONSTANTS]

\* The kind of error an EvalError stands for, by the statement that raised it
\* and, for one that wraps a callable's exception, by that exception.
ErrorKind(o) ==
  IF o.st # "err" THEN "none"
  ELSE IF o.site = "empty" THEN "EmptyInput"
  ELSE IF o.site = "token" THEN "ForbiddenToken"
  ELSE IF o.site = "parse" THEN "SyntaxError"
  ELSE IF o.site \in {"operator", "node", "consttype", "binop", "unop", "func",
                      "call", "name", "expr"} THEN "DisallowedConstruct"
  ELSE IF o.why = "arity" THEN "ArityError"
  ELSE IF o.why \in {"zero", "domain"} THEN "DomainError"
  ELSE "EvaluationFailure"

-----------------------------------------------------------------------------
(***************************************************************************)
(* The presentation of a result in the session: f"{result:.12g}", float()  *)
(* of that text, str() of a history entry's result.                        *)
(***************************************************************************)
SigDigits == 12

RECURSIVE DivDigits(_, _, _)
\* The next k decimal digits of num/den (0 <= num < 10 * den) and what is
\* left, scaled by ten: [digs, rem].
DivDigits(num, den, k) ==
  IF k = 0 THEN [digs |-> <<>>, rem |-> num]
  ELSE LET rest == DivDigits((num % den) * 10, den, k - 1)
       IN [digs |-> <<Digits[(num \div den) + 1]>> \o rest.digs, rem |-> rest.rem]

RECURSIVE Scale(_, _, _)
\* n/d (n, d > 0) as num/den * 10^exp with 1 <= num/den < 10.
Scale(n, d, e) ==
  IF n >= 10 * d THEN Scale(n, 10 * d, e + 1)
  ELSE IF n < d THEN Scale(10 * n, d, e - 1)
  ELSE [num |-> n, den |-> d, exp |-> e]

RECURSIVE IntDigits(_)
IntDigits(n) ==
  IF n < 10 THEN <<Digits[n + 1]>> ELSE Append(IntDigits(n \div 10), Digits[(n % 10) + 1])

RECURSIVE Increment(_)
\* A digit string plus one in its last place (a carry out adds a digit).
Increment(ds) ==
  IF ds = <<>> THEN <<"1">>
  ELSE IF ds[Len(ds)] = "9" THEN Append(Increment(SubSeq(ds, 1, Len(ds) - 1)), "0")
  ELSE Append(SubSeq(ds, 1, Len(ds) - 1), Digits[DigitVal(ds[Len(ds)]) + 2])

\* The decimal expansion of a finite non-zero number to k significant digits:
\* [neg, digs, exp, rem, den], the value being d1.d2...dk * 10^exp plus
\* rem/(10 * den) of the last place; known says whether rem is.
Expansion(v, k) ==
  IF v.t = "dfloat"
    THEN [neg |-> v.neg, exp |-> v.exp, den |-> 1, known |-> Len(v.digs) <= k,
          rem |-> 0, digs |-> SubSeq(v.digs, 1, IF Len(v.digs) < k THEN Len(v.digs) ELSE k),
          more |-> SubSeq(v.digs, k + 1, Len(v.digs))]
  ELSE LET sc == Scale(Abs(Num(v)), Den(v), 0)
           dd == DivDigits(sc.num, sc.den, k)
       IN [neg |-> Num(v) < 0, exp |-> sc.exp, den |-> sc.den, known |-> TRUE,
           rem |-> dd.rem, digs |-> dd.digs, more |-> <<>>]

\* Whether the first k digits are to be rounded up (round-half-even on the
\* double's value): "up", "down", or "unmodelled" where the digits the model
\* holds do not decide it.
Rounding(v, x) ==
  IF x.known
    THEN IF x.rem > 5 * x.den THEN (IF IsExact(v) \/ (x.rem - 5 * x.den) * 800 > x.den
                                      THEN "up" ELSE "unmodelled")
         ELSE IF x.rem < 5 * x.den
           THEN (IF IsExact(v) \/ (5 * x.den - x.rem) * 800 > x.den
                   THEN "down" ELSE "unmodelled")
         ELSE IF ~IsExact(v) THEN "unmodelled"
         ELSE IF DigitVal(x.digs[Len(x.digs)]) % 2 = 1 THEN "up" ELSE "down"
  ELSE LET m == x.more \o <<"0", "0">>
       IN IF (m[1] = "5" /\ m[2] = "0" /\ m[3] = "0")
             \/ (m[1] = "4" /\ m[2] = "9" /\ m[3] = "9") THEN "unmodelled"
          ELSE IF DigitVal(m[1]) >= 5 THEN "up" ELSE "down"

\* float(f"{result:.12g}") for a float, the result itself otherwise.
Display(v) ==
  IF ~IsFloat(v) \/ ~IsFinite(v) \/ IsZero(v) THEN v
  ELSE LET x == Expansion(v, SigDigits)
           r == Rounding(v, x)
           up == Increment(x.digs)
       IN IF x.known /\ x.rem = 0 THEN v
          ELSE IF r = "unmodelled" THEN Unmodelled
          ELSE IF r = "down" THEN DecToFloat(x.neg, x.digs, x.exp - (Len(x.digs) - 1))
          ELSE DecToFloat(x.neg, up, x.exp - (Len(x.digs) - 1))

\* repr of a float whose shortest round-trip digits are digs, exp.
FloatText(neg, digs, exp) ==
  LET sign == IF neg THEN <<"-">> ELSE <<>>
      n == Len(digs)
      zeros == [i \in 1..20 |-> "0"]
      ea == IntDigits(Abs(exp))
  IN IF exp < -4 \/ exp >= 16
       THEN sign \o <<digs[1]>> \o (IF n > 1 THEN <<".">> \o Tail(digs) ELSE <<>>)
            \o <<"e", IF exp < 0 THEN "-" ELSE "+">>
            \o (IF Len(ea) < 2 THEN <<"0">> ELSE <<>>) \o ea
     ELSE IF exp >= 0
       THEN sign \o (IF n > exp + 1 THEN SubSeq(digs, 1, exp + 1)
                     ELSE digs \o SubSeq(zeros, 1, exp + 1 - n))
            \o <<".">> \o (IF n > exp + 1 THEN SubSeq(digs, exp + 2, n) ELSE <<"0">>)
     ELSE sign \o <<"0", ".">> \o SubSeq(zeros, 1, -exp - 1) \o digs

\* A str value, as a history entry holds for a failed evaluation.
StrVal(text) == [t |-> "str", text |-> text]

RECURSIVE Str(_)
RECURSIVE StrAll(_)
\* str() of a result; the empty text where the model does not compute it.
Str(v) ==
  IF v.t = "str" THEN v.text
  ELSE IF v.t = "int" THEN (IF v.v < 0 THEN <<"-">> ELSE <<>>) \o IntDigits(Abs(v.v))
  ELSE IF v = Inf THEN <<"i", "n", "f">>
  ELSE IF v = NegInf THEN <<"-", "i", "n", "f">>
  ELSE IF v = NaN THEN <<"n", "a", "n">>
  ELSE IF v.t = "float" /\ v.n = 0 THEN <<"0", ".", "0">>
  ELSE IF v.t \in {"float", "dfloat"}
    THEN LET x == Expansion(v, 17)
         IN IF x.known /\ x.rem = 0
              THEN FloatText(x.neg, StripTrailingZeros(x.digs), x.exp)
            ELSE <<>>
  ELSE IF v.t = "tuple"
    THEN LET parts == StrAll(v.elts)
         IN IF parts = <<"?">> THEN <<>>
            ELSE <<"(">> \o parts \o (IF Len(v.elts) = 1 THEN <<",">> ELSE <<>>) \o <<")">>
  ELSE <<>>

\* The elements' texts joined by ", "; "?" if one is not computed.
StrAll(vs) ==
  IF vs = <<>> THEN <<>>
  ELSE LET head == Str(vs[1])
           rest == StrAll(Tail(vs))
       IN IF head = <<>> \/ rest = <<"?">> THEN <<"?">>
          ELSE IF Len(vs) = 1 THEN head
          ELSE head \o <<",", " ">> \o rest

-----------------------------------------------------------------------------
(***************************************************************************)
(* The expressions a caller passes to safe_eval, as texts.  Each family is *)
(* built from a few pieces; MaxLit, MaxArgs bound the pieces drawn.        *)
(***************************************************************************)
MaxLit == 2

MaxArgs == 3

\* The characters of the names used in the texts.
Spell ==
  [sin |-> <<"s", "i", "n">>,
   cos |-> <<"c", "o", "s">>,
   tan |-> <<"t", "a", "n">>,
   asin |-> <<"a", "s", "i", "n">>,
   acos |-> <<"a", "c", "o", "s">>,
   atan |-> <<"a", "t", "a", "n">>,
   sqrt |-> <<"s", "q", "r", "t">>,
   log |-> <<"l", "o", "g">>,
   log10 |-> <<"l", "o", "g", "1", "0">>,
   ln |-> <<"l", "n">>,
   exp |-> <<"e", "x", "p">>,
   abs |-> <<"a", "b", "s">>,
   ceil |-> <<"c", "e", "i", "l">>,
   floor |-> <<"f", "l", "o", "o", "r">>,
   factorial |-> <<"f", "a", "c", "t", "o", "r", "i", "a", "l">>,
   pi |-> <<"p", "i">>,
   e |-> <<"e">>,
   tau |-> <<"t", "a", "u">>,
   inf |-> <<"i", "n", "f">>,
   nan |-> <<"n", "a", "n">>,
   xyz |-> <<"x", "y", "z">>,
   foo |-> <<"f", "o", "o">>]

RECURSIVE JoinWith(_, _)
JoinWith(texts, sep) ==
  IF texts = <<>> THEN <<>>
  ELSE IF Len(texts) = 1 THEN texts[1]
  ELSE texts[1] \o sep \o JoinWith(Tail(texts), sep)

CallText(f, args) == Spell[f] \o <<"(">> \o JoinWith(args, <<",">>) \o <<")">>

BlankTexts == {<<>>, <<" ">>, <<" ", " ">>}

\* Texts around a denylisted substring or around one that comes close.
WordTexts ==
  LET words == {DenyList[i] : i \in 1..Len(DenyList)}
               \cup {<<"o", "s">>, <<"s", "y", "s">>, <<"_">>, <<"_", "^", "_">>,
                     <<"e", "x", "e">>}
      before == {<<>>, <<"2", "+", "2">>, <<" ">>, <<"c">>}
      after == {<<>>, <<" ", "1">>, <<".">>, <<"(", "1", ")">>}
  IN {b \o w \o a : b \in before, w \in words, a \in after}

\* name(arg, ..., arg) for every function of the table and one that is not.
CallTexts ==
  LET args == {<<"0">>, <<"1">>, <<"2">>}
      lists == UNION {[1..n -> args] : n \in 0..MaxArgs}
  IN {CallText(f, a) : f \in (DOMAIN _MATH_FUNCS) \cup {"foo"}, a \in lists}

\* One operator, call or pair of parentheses around operands of every kind.
MixedTexts ==
  LET atoms == {<<"0">>, <<"1">>, <<"2">>, <<"0", ".", "5">>, Spell.xyz, Spell.pi,
                <<"(", "1", ",", "2", ")">>, <<"1", "/", "0">>, <<"1", "+", "2">>,
                CallText("sqrt", << <<"-", "1">> >>), CallText("sqrt", << <<"4">> >>),
                CallText("factorial", << <<"-", "1">> >>)}
      infix == {<<"+">>, <<"-">>, <<"*">>, <<"/">>, <<"/", "/">>, <<"%">>, <<"^">>,
                <<",">>}
  IN atoms
     \cup {a \o o \o b : a \in atoms, o \in infix, b \in atoms}
     \cup {<<"-">> \o a : a \in atoms}
     \cup {<<"(">> \o a \o <<")">> : a \in atoms}
     \cup {CallText(f, <<a>>) : f \in {"sqrt", "abs", "log", "foo"}, a \in atoms}

\* Texts the grammar or the walk rejects, and some it lets through.
OtherTexts ==
  {<<"2", "+">>, <<")">>, <<"1", " ", "2">>, <<"0", "1">>, <<" ", "1">>, <<"1", " ">>,
   <<"1", "&", "2">>, <<"~", "1">>, <<"x", ".", "y">>, <<".", ".", ".">>,
   <<"1", "(", "2", ")">>, <<"(", "s", "q", "r", "t", ")", "(", "4", ")">>,
   <<"s", "q", "r", "t", "(", "*", "1", ")">>, <<"(", ")">>, <<"1", "/", "3">>,
   <<"2", "/", "3">>, <<"1", "0", " ", "%", " ", "3">>, <<"2", "*", "*", "8">>,
   <<"x">>, <<"e">>, <<"-", "i", "n", "f">>, <<"n", "a", "n">>}

Texts == BlankTexts \cup WordTexts \cup CallTexts \cup MixedTexts \cup OtherTexts

\* Integer expressions as trees: a literal, a unary sign, a binary operator,
\* nested twice with one operand of the outer operator a literal.
IntOps == {"Add", "Sub", "Mult", "Mod", "FloorDiv", "Pow"}

IntTrees ==
  LET t0 == {Constant(IntVal(n)) : n \in 0..MaxLit}
      grow(big, small) ==
        {UnaryOp(u, x) : u \in {"USub", "UAdd"}, x \in big}
        \cup {BinOp(o, l, r) : o \in IntOps, l \in big, r \in small}
        \cup {BinOp(o, l, r) : o \in IntOps, l \in small, r \in big}
      t1 == t0 \cup grow(t0, t0)
  IN t1 \cup grow(t1, t0)

\* How tightly a tree binds: 1 additive, 2 multiplicative, 3 unary, 4 power,
\* 5 a literal.
Binding(t) ==
  IF t.k = "Constant" THEN 5
  ELSE IF t.k = "UnaryOp" THEN 3
  ELSE IF t.op = "Pow" THEN 4
  ELSE IF t.op \in {"Add", "Sub"} THEN 1
  ELSE 2

OpText(o) ==
  IF o = "Add" THEN <<"+">> ELSE IF o = "Sub" THEN <<"-">>
  ELSE IF o = "Mult" THEN <<"*">> ELSE IF o = "Mod" THEN <<"%">>
  ELSE IF o = "FloorDiv" THEN <<"/", "/">> ELSE IF o = "Pow" THEN <<"^">>
  ELSE IF o = "USub" THEN <<"-">> ELSE <<"+">>

RECURSIVE Unparse(_)
\* The text of a tree with the fewest parentheses.
Unparse(t) ==
  LET wrap(x, bare) == IF bare THEN Unparse(x) ELSE <<"(">> \o Unparse(x) \o <<")">>
  IN IF t.k = "Constant" THEN IntDigits(t.value.v)
     ELSE IF t.k = "UnaryOp" THEN OpText(t.op) \o wrap(t.operand, Binding(t.operand) >= 3)
     ELSE IF t.op = "Pow"
       THEN wrap(t.left, Binding(t.left) = 5) \o OpText(t.op)
            \o wrap(t.right, Binding(t.right) >= 3)
     ELSE wrap(t.left, Binding(t.left) >= Binding(t))
          \o OpText(t.op)
          \o wrap(t.right, Binding(t.right) > Binding(t))

-----------------------------------------------------------------------------
(***************************************************************************)
(* State.                                                                  *)
(*   tables                the three module-level tables                   *)
(*   stage, expr, parsed   a call of safe_eval: where it stands, its local *)
(*                         expr (rebound by the replace) and parsed        *)
(*   result                what the call returns or raises                 *)
(*   input, tree, ran,     history variables: the argument of the call,    *)
(*   ncalls                the tree it was written from (if any), the      *)
(*                         stages run so far, the calls completed          *)
(*   expr_input, history,  st.session_state                                *)
(*   _prev_expr                                                            *)
(*   log, presses          history variables: the stripped inputs of the   *)
(*                         non-blank Computes since the last Clear, newest *)
(*                         first; the quick buttons pressed                *)
(* The session's writes to st.session_state are taken to take effect as    *)
(* assignments to a mapping.                                               *)
(***************************************************************************)
VARIABLES tables, stage, expr, parsed, result, input, tree, ran, ncalls,
          expr_input, history, _prev_expr, log, presses

evalvars == <<stage, expr, parsed, result, input, tree, ran, ncalls>>

uivars == <<expr_input, history, _prev_expr, log, presses>>

vars == <<tables, evalvars, uivars>>

MaxCalls == 2

MaxHistory == 2

MaxPresses == 1

Pending == [NotModelled EXCEPT !.st = "pending"]

Init ==
  /\ tables = Tables0
  /\ stage = "idle" /\ expr = <<>> /\ parsed = NoNode /\ result = Pending
  /\ input = <<>> /\ tree = NoNode /\ ran = <<>> /\ ncalls = 0
  /\ expr_input = <<>> /\ history = <<>> /\ _prev_expr = <<>>
  /\ log = <<>> /\ presses = 0

-----------------------------------------------------------------------------
(***************************************************************************)
(* A call safe_eval(s), stage by stage.                                    *)
(***************************************************************************)
Begin(s, t) ==
  /\ stage = "idle" /\ ncalls < MaxCalls
  /\ safe_eval(s, tables).st # "unmodelled"
  /\ stage' = "preprocess" /\ expr' = s /\ input' = s /\ tree' = t
  /\ parsed' = NoNode /\ result' = Pending /\ ran' = <<>>
  /\ UNCHANGED <<tables, ncalls, uivars>>

\* safe_eval is called on a text.
Enter(s) == Begin(s, NoNode)

\* safe_eval is called on the text of an integer expression.
EnterTree(t) == Begin(Unparse(t), t)

\* The blank test, the replace and the denylist loop.
Preprocess ==
  /\ stage = "preprocess"
  /\ ran' = Append(ran, "preprocess")
  /\ IF expr = <<>> \/ IsBlank(expr)
       THEN /\ result' = Raises("empty", <<"Empty expression">>, 0)
            /\ stage' = "done" /\ expr' = expr
       ELSE /\ expr' = Normalize(expr)
            /\ IF Denied(expr')
                 THEN /\ result' = Raises("token", <<"Invalid token in expression">>, 0)
                      /\ stage' = "done"
                 ELSE /\ result' = result
                      /\ stage' = "parse"
  /\ UNCHANGED <<tables, parsed, input, tree, ncalls, uivars>>

\* ast.parse in its try block.
ParseStage ==
  /\ stage = "parse"
  /\ ran' = Append(ran, "parse")
  /\ LET p == Parse(expr)
     IN IF p.st # "ok"
          THEN result' = ParseOutcome(p) /\ stage' = "done" /\ parsed' = parsed
          ELSE result' = result /\ stage' = "walk" /\ parsed' = p.tree
  /\ UNCHANGED <<tables, expr, input, tree, ncalls, uivars>>

\* The loop over ast.walk(parsed).
WalkStage ==
  /\ stage = "walk"
  /\ ran' = Append(ran, "walk")
  /\ LET w == Validate(parsed, tables)
     IN IF w.st # "ok"
          THEN result' = w /\ stage' = "done"
          ELSE result' = result /\ stage' = "eval"
  /\ UNCHANGED <<tables, expr, parsed, input, tree, ncalls, uivars>>

\* return _eval_ast(parsed)
EvalStage ==
  /\ stage = "eval"
  /\ ran' = Append(ran, "eval")
  /\ result' = _eval_ast(parsed, tables)
  /\ stage' = "done"
  /\ UNCHANGED <<tables, expr, parsed, input, tree, ncalls, uivars>>

\* A return that takes pi out of the constants, to compare with.
ReturnWithoutPi ==
  /\ stage = "done"
  /\ stage' = "idle" /\ expr' = <<>> /\ parsed' = NoNode /\ result' = Pending
  /\ input' = <<>> /\ tree' = NoNode /\ ran' = <<>>
  /\ ncalls' = ncalls + 1
  /\ tables' = [tables EXCEPT !.consts =
                  [n \in (DOMAIN tables.consts) \ {"pi"} |-> tables.consts[n]]]
  /\ UNCHANGED uivars

\* The call is over: its locals are gone, the tables are as they were.
Return ==
  /\ stage = "done"
  /\ stage' = "idle" /\ expr' = <<>> /\ parsed' = NoNode /\ result' = Pending
  /\ input' = <<>> /\ tree' = NoNode /\ ran' = <<>>
  /\ ncalls' = ncalls + 1
  /\ UNCHANGED <<tables, uivars>>

Next ==
  \/ \E s \in Texts : Enter(s)
  \/ \E t \in IntTrees : EnterTree(t)
  \/ Preprocess
  \/ ParseStage
  \/ WalkStage
  \/ EvalStage
  \/ Return

Spec == Init /\ [][Next]_vars

-----------------------------------------------------------------------------
(***************************************************************************)
(* The session.  Each action is one run of the script from top to bottom,  *)
(* started by the user's edit of the text box or press of one button; the  *)
(* run ends with the update of _prev_expr unless a later handler writes.   *)
(***************************************************************************)
\* What the user types into the text box.
Typed ==
  {<<>>, <<" ">>, <<" ", "1", "/", "3", " ">>, <<"1", "/", "0">>, <<"2", "+", "2">>,
   <<"0", ".", "5">>}

\* to_append of the quick-operation buttons.
ops == {"+", "-", "*", "/", "^", "%", "(", ")"}

\* The quick-function buttons, by the name before the "(" of their label.
funcs == {"sin", "cos", "tan", "sqrt", "log", "log10", "exp", "abs"}

\* The buttons whose press does nothing.
IdleButtons == {"Calculate", "Evaluate", "Compute (perform evaluation)"}

\* The text box is edited; no button is pressed in the run.
TypeInput(s) ==
  /\ expr_input' = s
  /\ _prev_expr' = s
  /\ UNCHANGED <<tables, evalvars, history, log, presses>>

\* A quick button appends its text to the input.
AppendToInput(text) ==
  /\ presses < MaxPresses
  /\ expr_input' = expr_input \o text
  /\ _prev_expr' = expr_input'
  /\ presses' = presses + 1
  /\ UNCHANGED <<tables, evalvars, history, log>>

PressOp(to_append) == AppendToInput(<<to_append>>)

PressFunc(label) == AppendToInput(Spell[label] \o <<"(">>)

PressIdle(b) ==
  /\ b \in IdleButtons
  /\ _prev_expr' = expr_input
  /\ UNCHANGED <<tables, evalvars, expr_input, history, log, presses>>

\* The second item of a history entry: result_display, or the error's text.
Outcome(r) ==
  IF r.st = "ok" THEN Display(r.val) ELSE StrVal(<<"Error: ">> \o r.msg)

\* The entry put at the end of the history, to compare with.
InsertLast(expression, r) ==
  /\ Len(history) < MaxHistory
  /\ r.st # "unmodelled"
  /\ Outcome(r) # Unmodelled
  /\ history' = history \o <<(<<expression, Outcome(r)>>)>>
  /\ log' = <<[expression |-> expression, outcome |-> r]>> \o log

\* st.session_state.history.insert(0, (expression, ...)) after safe_eval
\* gave r.
Insert(expression, r) ==
  /\ Len(history) < MaxHistory
  /\ r.st # "unmodelled"
  /\ Outcome(r) # Unmodelled
  /\ history' = <<(<<expression, Outcome(r)>>)>> \o history
  /\ log' = <<[expression |-> expression, outcome |-> r]>> \o log

\* The Compute button.  Of the modelled inputs safe_eval raises nothing but
\* EvalError.
Compute ==
  /\ _prev_expr' = expr_input
  /\ IF Strip(expr_input) = <<>>
       THEN UNCHANGED <<history, log>>
       ELSE Insert(Strip(expr_input), safe_eval(Strip(expr_input), tables))
  /\ UNCHANGED <<tables, evalvars, expr_input, presses>>

ClearHistory ==
  /\ history' = <<>>
  /\ log' = <<>>
  /\ _prev_expr' = expr_input
  /\ UNCHANGED <<tables, evalvars, expr_input, presses>>

\* The button is there when the history is not empty; its write comes after
\* the update of _prev_expr.
CopyLastResult ==
  /\ history # <<>>
  /\ Str(history[1][2]) # <<>>
  /\ expr_input' = Str(history[1][2])
  /\ _prev_expr' = expr_input
  /\ UNCHANGED <<tables, evalvars, history, log, presses>>

CopyLastExpression ==
  /\ history # <<>>
  /\ expr_input' = history[1][1]
  /\ _prev_expr' = expr_input
  /\ UNCHANGED <<tables, evalvars, history, log, presses>>

SessionNext ==
  \/ \E s \in Typed : TypeInput(s)
  \/ \E to_append \in ops : PressOp(to_append)
  \/ \E label \in funcs : PressFunc(label)
  \/ \E b \in IdleButtons : PressIdle(b)
  \/ Compute
  \/ ClearHistory
  \/ CopyLastResult
  \/ CopyLastExpression

SessionSpec == Init /\ [][SessionNext]_vars

-----------------------------------------------------------------------------
(***************************************************************************)
(* The claims.                                                             *)
(***************************************************************************)
\* The substrings the denylist is said to hold.
Forbidden ==
  {<<";">>, <<"_", "_">>, <<"i", "m", "p", "o", "r", "t">>, <<"e", "x", "e", "c">>,
   <<"e", "v", "a", "l">>, <<"o", "s", ".">>, <<"s", "y", "s", ".">>,
   <<"s", "u", "b", "p", "r", "o", "c", "e", "s", "s">>}

RECURSIVE CaretToPower(_)
\* A text with each ^ rewritten to **.
CaretToPower(s) ==
  IF s = <<>> THEN <<>>
  ELSE (IF Head(s) = "^" THEN <<"*", "*">> ELSE <<Head(s)>>) \o CaretToPower(Tail(s))

HasForbidden(s) ==
  \E w \in Forbidden :
    \E i \in 1..(Len(CaretToPower(s)) - Len(w) + 1) :
      SubSeq(CaretToPower(s), i, i + Len(w) - 1) = w

\* C1: a call on a non-blank input whose text, after the rewriting of ^ to
\* **, contains a forbidden substring runs no stage after the preprocessor,
\* holds no parsed tree, and ends with the ForbiddenToken error.
C1_ForbiddenToken ==
  (stage # "idle" /\ ~IsBlank(input) /\ HasForbidden(input)) =>
    /\ stage \in {"preprocess", "done"}
    /\ \A i \in 1..Len(ran) : ran[i] = "preprocess"
    /\ parsed = NoNode
    /\ stage = "done" => ErrorKind(result) = "ForbiddenToken"

\* "2+2" then ";" then " 1" was rejected, after an earlier call.
C1_Witness ==
  /\ stage = "done" /\ ncalls >= 1
  /\ input = <<"2", "+", "2", ";", " ", "1">>
  /\ HasForbidden(input)
  /\ ran = <<"preprocess">>
  /\ ErrorKind(result) = "ForbiddenToken"

RECURSIVE RefersUnlisted(_)
\* Whether a tree references a name that is no constant of the table or
\* calls a function that is none of the table, anywhere.
RefersUnlisted(n) ==
  IF n.k = "Name" THEN n.id \notin DOMAIN _CONSTANTS
  ELSE IF n.k = "Call"
    THEN \/ IF n.func.k = "Name" THEN n.func.id \notin DOMAIN _MATH_FUNCS
            ELSE RefersUnlisted(n.func)
         \/ \E i \in 1..Len(n.args) : RefersUnlisted(n.args[i])
         \/ \E i \in 1..Len(n.keywords) : RefersUnlisted(n.keywords[i])
  ELSE \E i \in 1..Len(Children(n)) : RefersUnlisted(Children(n)[i])

\* C2: a call whose input parsed to a tree that references an unlisted name
\* or function anywhere ends with the DisallowedConstruct error.
C2_UnlistedRejected ==
  (stage = "done" /\ parsed # NoNode /\ RefersUnlisted(parsed)) =>
    ErrorKind(result) = "DisallowedConstruct"

RECURSIVE RefPower(_, _)
\* b to the e, e >= 0.
RefPower(b, e) == IF e = 0 THEN 1 ELSE b * RefPower(b, e - 1)

\* The floored quotient of a by b # 0.
RefQuotient(a, b) ==
  CHOOSE q \in -Abs(a)..Abs(a) :
    IF b > 0 THEN q * b <= a /\ a < q * b + b ELSE q * b >= a /\ a > q * b + b

RECURSIVE RefEval(_)
\* The value of an integer expression by the reference evaluator.
RefEval(t) ==
  IF t.k = "Constant" THEN t.value.v
  ELSE IF t.k = "UnaryOp"
    THEN (IF t.op = "USub" THEN -RefEval(t.operand) ELSE RefEval(t.operand))
  ELSE IF t.op = "Add" THEN RefEval(t.left) + RefEval(t.right)
  ELSE IF t.op = "Sub" THEN RefEval(t.left) - RefEval(t.right)
  ELSE IF t.op = "Mult" THEN RefEval(t.left) * RefEval(t.right)
  ELSE IF t.op = "Pow" THEN RefPower(RefEval(t.left), RefEval(t.right))
  ELSE IF t.op = "FloorDiv" THEN RefQuotient(RefEval(t.left), RefEval(t.right))
  ELSE RefEval(t.left)
       - RefEval(t.right) * RefQuotient(RefEval(t.left), RefEval(t.right))

RECURSIVE RefDefined(_)
\* No divisor of the expression is zero and no exponent negative.
RefDefined(t) ==
  IF t.k = "Constant" THEN TRUE
  ELSE IF t.k = "UnaryOp" THEN RefDefined(t.operand)
  ELSE /\ RefDefined(t.left) /\ RefDefined(t.right)
       /\ t.op \in {"Mod", "FloorDiv"} => RefEval(t.right) # 0
       /\ t.op = "Pow" => RefEval(t.right) >= 0

\* C3: a call on the text of an integer expression with non-zero divisors
\* and non-negative exponents returns the int the reference evaluator gives
\* for the expression's tree.
C3_IntegerArithmetic ==
  (stage = "done" /\ tree # NoNode /\ RefDefined(tree)) =>
    /\ result.st = "ok"
    /\ result.val = [t |-> "int", v |-> RefEval(tree)]

\* -2^2 returned -4 and (-2)^2 is another text.
C3_Witness ==
  /\ stage = "done"
  /\ tree = UnaryOp("USub", BinOp("Pow", Constant(IntVal(2)), Constant(IntVal(2))))
  /\ input = <<"-", "2", "^", "2">>
  /\ result.st = "ok" /\ result.val = IntVal(-4)

\* C4: a call that applied /, // or % to a right operand that is zero, sqrt
\* to a negative number or factorial to a negative int ends with the
\* DomainError error.
C4_DomainError ==
  (/\ stage = "done" /\ result.st = "err" /\ result.site = "apply"
   /\ \/ /\ result.fn \in {"op.truediv", "op.floordiv", "op.mod"}
         /\ IsZero(result.args[2])
      \/ /\ result.fn = "math.sqrt" /\ Len(result.args) = 1
         /\ IsNumber(result.args[1]) /\ IsNegative(result.args[1])
      \/ /\ result.fn = "math.factorial" /\ Len(result.args) = 1
         /\ IsInt(result.args[1]) /\ IsNegative(result.args[1]))
  => ErrorKind(result) = "DomainError"

\* The functions said to take one argument.
OneArgument ==
  {"sin", "cos", "tan", "asin", "acos", "atan", "sqrt", "log10", "ln", "exp",
   "abs", "ceil", "floor", "factorial"}

\* A call of a named function on number literals.
CallOnValues(c) ==
  /\ c.k = "Call" /\ c.func.k = "Name" /\ c.keywords = <<>>
  /\ \A i \in 1..Len(c.args) : c.args[i].k = "Constant" /\ IsNumber(c.args[i].value)

\* C5: a call of log on one or two values does not end with ArityError; a
\* call of another listed function on a number of values other than one
\* ends with ArityError.
C5_Arity ==
  (stage = "done" /\ parsed # NoNode /\ CallOnValues(parsed.body)) =>
    /\ (parsed.body.func.id = "log" /\ Len(parsed.body.args) \in {1, 2})
         => ErrorKind(result) # "ArityError"
    /\ (parsed.body.func.id \in OneArgument /\ Len(parsed.body.args) # 1)
         => ErrorKind(result) = "ArityError"

\* C6: a call whose tree holds a tuple ends with an error, and a call that
\* returns returns a single number.
C6_NoTuple ==
  stage = "done" =>
    /\ result.st = "ok" => IsNumber(result.val)
    /\ (parsed # NoNode
        /\ \E i \in 1..Len(Walk(<<parsed>>)) : Walk(<<parsed>>)[i].k = "Tuple")
         => result.st = "err"

\* C7: the result kept in a history entry of a successful Compute, which
\* Copy last result to input reads, is the value safe_eval returned.
C7_StoredUnrounded ==
  \A i \in 1..Len(history) :
    (i <= Len(log) /\ log[i].outcome.st = "ok") => history[i][2] = log[i].outcome.val

\* C8: the tables are the ones the module defines, and a call ends with
\* what safe_eval gives for its input under them, however many calls
\* came before.
C8_NoDrift ==
  /\ tables = Tables0
  /\ stage = "done" => result = safe_eval(input, Tables0)

\* A call ended with a value after an earlier call.
C8_Witness ==
  /\ stage = "done" /\ ncalls >= 1
  /\ input = <<"s", "q", "r", "t", "(", "4", ")">>
  /\ result.st = "ok"

\* C9: the stages run in the order preprocess, parse, walk, eval, and a
\* call that ends with DisallowedConstruct has applied no operator and no
\* function.
C9_NoPartialEvaluation ==
  /\ Len(ran) <= 4
  /\ ran = SubSeq(<<"preprocess", "parse", "walk", "eval">>, 1, Len(ran))
  /\ (stage = "done" /\ ErrorKind(result) = "DisallowedConstruct")
       => result.applied = 0

\* The history holds one entry for each non-blank Compute since the last
\* Clear, newest first: the expression and its value as displayed, or the
\* text of its error.
LedgerInv ==
  /\ Len(history) = Len(log)
  /\ \A i \in 1..Len(history) :
       /\ history[i][1] = log[i].expression
       /\ log[i].expression # <<>> /\ log[i].expression = Strip(log[i].expression)
       /\ log[i].outcome.st = "ok"
            => history[i][2] = Display(log[i].outcome.val)
       /\ log[i].outcome.st = "err"
            => /\ history[i][2].t = "str"
               /\ history[i][2].text = <<"Error: ">> \o log[i].outcome.msg

\* A blank Compute leaves the history as it is; only Clear history removes
\* entries; the history changes otherwise by one entry put in front of it
\* for the stripped input of a Compute.
LedgerStep ==
  /\ (Compute /\ IsBlank(expr_input)) => history' = history
  /\ ~ClearHistory =>
       \E k \in 0..1 : k <= Len(history') /\ SubSeq(history', k + 1, Len(history')) = history
  /\ (history' # history /\ history' # <<>>) =>
       /\ Compute /\ ~IsBlank(expr_input)
       /\ Tail(history') = history
       /\ history'[1][1] = Strip(expr_input)
       /\ Tail(log') = log

\* C10: the session history is the ledger of the non-blank Computes since
\* the last Clear history, in every state and across every step.
C10_Ledger == []LedgerInv /\ [][LedgerStep]_vars

\* Two entries: a failed evaluation in front of a successful one.
C10_Witness ==
  /\ Len(history) = 2
  /\ history[1][2].t = "str"
  /\ history[2][2].t # "str"
  /\ log[1].outcome.st = "err" /\ log[2].outcome.st = "ok"

====
